---- MODULE Spec2Model ----
(***************************************************************************)
(* A model of regreg's support-function atoms (code/regreg/atoms.py) and   *)
(* of the generalized lasso's nested proximal step                         *)
(* (code/regreg/generalized_lasso.py).                                     *)
(*                                                                         *)
(* Objects live in a heap: a sequence of records, an object's identity is  *)
(* its index, 0 is "no object".  Python's None is the empty tuple, a       *)
(* number is an exact fraction <<numerator, denominator>>, a vector is a   *)
(* sequence of numbers.                                                    *)
(***************************************************************************)
EXTENDS Integers, Sequences, FiniteSets, TLC

VARIABLES atoms, affines, last, prox, gl

vars == <<atoms, affines, last, prox, gl>>

None == <<>>

(***************************************************************************)
(* Bounds of the model.                                                    *)
(***************************************************************************)
\* the number of objects the heap may hold
MaxAtoms == 3

(***************************************************************************)
(* Exact arithmetic on fractions (numpy's float arithmetic, without the    *)
(* rounding).                                                              *)
(***************************************************************************)
Abs(n) == IF n < 0 THEN -n ELSE n

RECURSIVE GCD(_, _)
GCD(a, b) == IF b = 0 THEN a ELSE GCD(b, a % b)

Frac(n, d) ==
    LET s == IF d < 0 THEN -1 ELSE 1
        g == GCD(Abs(n), Abs(d))
    IN  <<(s * n) \div g, (s * d) \div g>>

R(n) == <<n, 1>>

RNeg(a) == <<-a[1], a[2]>>
RAdd(a, b) == Frac(a[1] * b[2] + b[1] * a[2], a[2] * b[2])
RSub(a, b) == RAdd(a, RNeg(b))
RMul(a, b) == Frac(a[1] * b[1], a[2] * b[2])
RDiv(a, b) == Frac(a[1] * b[2], a[2] * b[1])

\* a < b and a <= b, the two brought to their least common denominator
RLt(a, b) ==
    LET g == GCD(a[2], b[2])
    IN  a[1] * (b[2] \div g) < b[1] * (a[2] \div g)
RLeq(a, b) ==
    LET g == GCD(a[2], b[2])
    IN  a[1] * (b[2] \div g) <= b[1] * (a[2] \div g)

\* -x, x + y and np.sum(x * y) on vectors of one shape
VNeg(x) == [i \in DOMAIN x |-> RNeg(x[i])]
VAdd(x, y) == [i \in DOMAIN x |-> RAdd(x[i], y[i])]

VSub(x, y) == [i \in DOMAIN x |-> RSub(x[i], y[i])]
VScale(r, x) == [i \in DOMAIN x |-> RMul(r, x[i])]

RECURSIVE SumTo(_, _)
SumTo(x, n) == IF n = 0 THEN R(0) ELSE RAdd(SumTo(x, n - 1), x[n])

VSum(x) == SumTo(x, Len(x))
Dot(x, y) == VSum([i \in DOMAIN x |-> RMul(x[i], y[i])])

(***************************************************************************)
(* The atom classes and the table of conjugate pairs.                      *)
(***************************************************************************)
AtomClasses ==
    {"l1norm", "supnorm", "l2norm", "positive_part", "constrained_max",
     "constrained_positive_part", "max_positive_part"}

\* a variant: the positive-part atoms paired the wrong way round
conjugate_seminorm_pairs_crossed ==
    [c \in AtomClasses |->
        CASE c = "l1norm" -> "supnorm"
          [] c = "supnorm" -> "l1norm"
          [] c = "l2norm" -> "l2norm"
          [] c = "positive_part" -> "max_positive_part"
          [] c = "max_positive_part" -> "positive_part"
          [] c = "constrained_positive_part" -> "constrained_max"
          [] c = "constrained_max" -> "constrained_positive_part"]

conjugate_seminorm_pairs ==
    [c \in AtomClasses |->
        CASE c = "l1norm" -> "supnorm"
          [] c = "supnorm" -> "l1norm"
          [] c = "l2norm" -> "l2norm"
          [] c = "positive_part" -> "constrained_max"
          [] c = "constrained_max" -> "positive_part"
          [] c = "constrained_positive_part" -> "max_positive_part"
          [] c = "max_positive_part" -> "constrained_positive_part"]

(***************************************************************************)
(* The values a caller passes.                                             *)
(***************************************************************************)
\* the primal shape of every atom of the model: vectors of this length
Shape == 3

ZeroVec == [i \in 1..Shape |-> R(0)]

\* lagrange= / bound= given to the constructor, and assigned later
CtorWeights == {None, R(-1), R(0), R(1)}
SetWeights == {None, R(-1), R(2)}

\* offset= given to the constructor, the affine offset of a transform
Offsets == {None, [i \in 1..Shape |-> R(IF i = 1 THEN 1 ELSE -1)]}

\* quadratic= given to the constructor: none, a linear and constant term,
\* or a term with a quadratic coefficient
Quadratics ==
    {None,
     [coef |-> R(0), center |-> None,
      linear_term |-> [i \in 1..Shape |-> R(i + 1)], constant_term |-> R(1)],
     [coef |-> R(1), center |-> None, linear_term |-> None,
      constant_term |-> R(0)]}

(***************************************************************************)
(* identity_quadratic: the term (coef/2)|x - center|^2 + linear_term.x +   *)
(* constant_term attached to an atom or handed to proximal.                *)
(***************************************************************************)
\* the value of an offset, a center or a linear term: none is zero
VecValue(x) == IF x = None THEN ZeroVec ELSE x

identity_quadratic(coef, center, linear_term, constant_term) ==
    [coef |-> coef, center |-> center, linear_term |-> linear_term,
     constant_term |-> constant_term]

\* the quadratic an atom holds when none is given: zero
default_quadratic == identity_quadratic(R(0), None, None, R(0))

\* the term in linear + constant form: the center is folded into the linear
\* and the constant term, an absent part is zero
collapsed(q) ==
    LET ctr == VecValue(q.center)
    IN  identity_quadratic(q.coef, ZeroVec,
            VSub(VecValue(q.linear_term), VScale(q.coef, ctr)),
            RAdd(q.constant_term, RMul(RDiv(q.coef, R(2)), Dot(ctr, ctr))))

zeroify(q) == collapsed(q)

\* a + b: the sum of the two terms in linear + constant form
quadratic_add(a, b) ==
    LET ca == collapsed(a)
        cb == collapsed(b)
    IN  identity_quadratic(RAdd(ca.coef, cb.coef), ZeroVec,
            VAdd(ca.linear_term, cb.linear_term),
            RAdd(ca.constant_term, cb.constant_term))

\* q.recenter(offset): the offset, and the term whose value at x is the
\* value of q at x + offset
recenter(q, offset) ==
    LET c == collapsed(q)
    IN  IF offset = None THEN [offset |-> None, quadratic |-> c]
        ELSE [offset |-> offset,
              quadratic |->
                  identity_quadratic(c.coef, ZeroVec,
                      VAdd(c.linear_term, VScale(c.coef, offset)),
                      RAdd(RAdd(c.constant_term, Dot(c.linear_term, offset)),
                           RMul(RDiv(c.coef, R(2)), Dot(offset, offset))))]

(***************************************************************************)
(* atom.__init__                                                           *)
(***************************************************************************)
\* a variant: the constructor without its two sign checks
atom_init_raises_unsigned(lagrange, bound) ==
    \/ ~(bound = None \/ lagrange = None)
    \/ (bound = None /\ lagrange = None)

\* the checks of the constructor: TRUE when it raises ValueError
atom_init_raises(lagrange, bound) ==
    \/ ~(bound = None \/ lagrange = None)
    \/ (bound = None /\ lagrange = None)
    \/ (bound # None /\ RLt(bound, R(0)))
    \/ (lagrange # None /\ RLt(lagrange, R(0)))

\* the constructed object, <<>> when the constructor raises
atom_init(cls, lagrange, bound, offset, quadratic) ==
    IF atom_init_raises(lagrange, bound) THEN <<>>
    ELSE <<[cls |-> cls,
            lagrange |-> IF lagrange # None THEN lagrange ELSE None,
            bound |-> IF bound # None THEN bound ELSE None,
            offset |-> offset,
            quadratic |-> IF quadratic = None THEN default_quadratic ELSE quadratic,
            conj |-> 0, held |-> FALSE]>>

\* smooth_conjugate(atom): the generic conjugate of an atom whose quadratic
\* has a coefficient; not an atom, it only receives attributes here
smooth_conjugate(a) ==
    [cls |-> "smooth_conjugate", lagrange |-> None, bound |-> None,
     offset |-> None, quadratic |-> default_quadratic, conj |-> 0,
     held |-> FALSE]

IsAtom(a) == a.cls \in AtomClasses

\* an object the caller has a reference to: it was returned by a constructor
\* or by a.conjugate, or it is the public attribute atom of an affine_atom.
\* The conjugate an assignment builds is referenced by _conjugate alone.
Held(a) == IsAtom(a) /\ a.held

hold(h, i) == [h EXCEPT ![i].held = TRUE]

(***************************************************************************)
(* atom.get_conjugate and _work_out_conjugate                              *)
(***************************************************************************)
\* a variant: the constant term of the quadratic taken over without its sign
work_out_conjugate_unnegated(offset, quadratic) ==
    LET off == IF offset = None THEN ZeroVec ELSE offset
        outq == identity_quadratic(R(0), ZeroVec, VNeg(off),
                    RAdd(quadratic.constant_term,
                         Dot(off, quadratic.linear_term)))
        outoffset == IF quadratic.linear_term # None
                     THEN VNeg(quadratic.linear_term) ELSE None
    IN  [offset |-> outoffset, quadratic |-> outq]

work_out_conjugate(offset, quadratic) ==
    LET off == IF offset = None THEN ZeroVec ELSE offset
        outq == identity_quadratic(R(0), ZeroVec, VNeg(off),
                    RAdd(RNeg(quadratic.constant_term),
                         Dot(off, quadratic.linear_term)))
        outoffset == IF quadratic.linear_term # None
                     THEN VNeg(quadratic.linear_term) ELSE None
    IN  [offset |-> outoffset, quadratic |-> outq]

\* self._conjugate = atom; self._conjugate._conjugate = self
link_conjugate(h, i, obj) ==
    LET new == Len(h) + 1
    IN  [heap |-> Append([h EXCEPT ![i].conj = new], [obj EXCEPT !.conj = i]),
         exc |-> "", ret |-> new]

\* the atom get_conjugate builds for self: of the paired class, in the other
\* mode, with the offset and the quadratic worked out; <<>> when its
\* constructor raises
conjugate_atom(self, w) ==
    IF self.bound = None
    THEN atom_init(conjugate_seminorm_pairs[self.cls], None, self.lagrange,
                   w.offset, w.quadratic)
    ELSE atom_init(conjugate_seminorm_pairs[self.cls], self.bound, None,
                   w.offset, w.quadratic)

\* get_conjugate once made is built (or not)
conjugate_made(h, i, made) ==
    IF made = <<>> THEN [heap |-> h, exc |-> "ValueError", ret |-> 0]
    ELSE link_conjugate(h, i, made[1])

\* get_conjugate after self.quadratic.zeroify()
conjugate_zeroified(h, i) ==
    IF h[i].quadratic.coef = R(0)
    THEN conjugate_made(h, i,
             conjugate_atom(h[i], work_out_conjugate(h[i].offset, h[i].quadratic)))
    ELSE link_conjugate(h, i, smooth_conjugate(h[i]))

\* the heap after self.conjugate is read on object i, the exception raised
\* ("" when none) and the object returned
get_conjugate(h, i) ==
    conjugate_zeroified([h EXCEPT ![i].quadratic = zeroify(@)], i)

(***************************************************************************)
(* atom.set_lagrange / atom.set_bound, and affine_atom's, which act on the *)
(* wrapped atom.                                                           *)
(***************************************************************************)
\* self.conjugate.bound = lagrange, c being what reading self.conjugate gave
conjugate_set_bound(c, lagrange) ==
    IF c.exc # "" THEN c
    ELSE [c EXCEPT !.heap = [@ EXCEPT ![c.ret].bound = lagrange], !.ret = 0]

\* self.conjugate.lagrange = bound, c being what reading self.conjugate gave
conjugate_set_lagrange(c, bound) ==
    IF c.exc # "" THEN c
    ELSE [c EXCEPT !.heap = [@ EXCEPT ![c.ret].lagrange = bound], !.ret = 0]

set_lagrange(h, i, lagrange) ==
    IF h[i].bound = None
    THEN conjugate_set_bound(
             get_conjugate([h EXCEPT ![i].lagrange = lagrange], i), lagrange)
    ELSE [heap |-> h, exc |-> "AttributeError", ret |-> 0]

\* a variant: set_bound without the test of the mode
set_bound_unguarded(h, i, bound) ==
    conjugate_set_lagrange(get_conjugate([h EXCEPT ![i].bound = bound], i), bound)

set_bound(h, i, bound) ==
    IF h[i].lagrange = None
    THEN conjugate_set_lagrange(
             get_conjugate([h EXCEPT ![i].bound = bound], i), bound)
    ELSE [heap |-> h, exc |-> "AttributeError", ret |-> 0]

affine_set_lagrange(h, w, lagrange) ==
    IF h[w.atom].bound = None
    THEN conjugate_set_bound(
             get_conjugate([h EXCEPT ![w.atom].lagrange = lagrange], w.atom),
             lagrange)
    ELSE [heap |-> h, exc |-> "AttributeError", ret |-> 0]

affine_set_bound(h, w, bound) ==
    IF h[w.atom].lagrange = None
    THEN conjugate_set_lagrange(
             get_conjugate([h EXCEPT ![w.atom].bound = bound], w.atom), bound)
    ELSE [heap |-> h, exc |-> "AttributeError", ret |-> 0]

(***************************************************************************)
(* atom.__copy__ and affine_atom.__init__                                  *)
(***************************************************************************)
atom_copy(a) == atom_init(a.cls, a.lagrange, a.bound, a.offset, a.quadratic)

\* a variant: the offset of the transform left in the transform
affine_atom_init_unfolded(atom_obj, affine_offset) ==
    LET cp == atom_copy(atom_obj)
    IN  IF cp = <<>> THEN <<>>
        ELSE <<[atom |-> cp[1],
                linear_transform |-> [affine_offset |-> affine_offset]]>>

\* the wrapped atom and the stored transform, <<>> when the copy raises
affine_atom_init(atom_obj, affine_offset) ==
    LET cp == atom_copy(atom_obj)
    IN  IF cp = <<>> THEN <<>>
        ELSE LET a == cp[1]
                 folded == IF affine_offset # None
                           THEN [a EXCEPT !.offset =
                                    IF a.offset # None
                                    THEN VAdd(a.offset, affine_offset)
                                    ELSE affine_offset]
                           ELSE a
             IN  <<[atom |-> folded, linear_transform |-> [affine_offset |-> None]]>>

(***************************************************************************)
(* Arithmetic of the proximal maps.                                        *)
(***************************************************************************)
RAbs(a) == <<Abs(a[1]), a[2]>>
RSign(a) == R(IF a[1] > 0 THEN 1 ELSE IF a[1] < 0 THEN -1 ELSE 0)
RMax(a, b) == IF RLeq(a, b) THEN b ELSE a
RMin(a, b) == IF RLeq(a, b) THEN a ELSE b

\* the square root of a whole number that is a square
IsSquare(n) == \E k \in 0..n : k * k = n
ISqrt(n) == CHOOSE k \in 0..n : k * k = n

\* np.linalg.norm(x); exact when the sum of squares is the square of a
\* fraction, which NormDefined says
NormDefined(x) == LET q == Dot(x, x) IN IsSquare(q[1]) /\ IsSquare(q[2])
Norm2(x) == LET q == Dot(x, x) IN <<ISqrt(q[1]), ISqrt(q[2])>>

\* np.fabs(x).sum()
Norm1(x) == VSum([i \in DOMAIN x |-> RAbs(x[i])])

\* np.clip(x, lo, hi); an absent end is infinite
Clip(x, lo, hi) ==
    [i \in DOMAIN x |->
        LET below == IF hi = None THEN x[i] ELSE RMin(x[i], hi)
        IN  IF lo = None THEN below ELSE RMax(below, lo)]

\* the largest member of a finite set of numbers
MaxOf(S) == CHOOSE m \in S : \A r \in S : RLeq(r, m)

\* projl1(x, bound): the Euclidean projection of x onto the L1 ball of
\* radius bound.  x is its own projection when inside; otherwise every entry
\* is shrunk towards zero by the threshold theta at which the shrunk vector
\* has L1 norm bound: theta is the largest of (sum of |x_i| over A - bound)
\* / |A| over the non-empty sets A of positions.
projl1(x, bound) ==
    IF RLeq(Norm1(x), bound) THEN x
    ELSE LET over(A) == RDiv(RSub(VSum([i \in DOMAIN x |->
                                   IF i \in A THEN RAbs(x[i]) ELSE R(0)]), bound),
                             R(Cardinality(A)))
             theta == MaxOf({over(A) : A \in (SUBSET DOMAIN x) \ {{}}})
         IN  [i \in DOMAIN x |->
                 RMul(RSign(x[i]), RMax(RSub(RAbs(x[i]), theta), R(0)))]

\* pos = x > 0, as the increasing sequence of the positions
Positive(x) ==
    LET IsPos(i) == RLt(R(0), x[i])
    IN  SelectSeq([i \in DOMAIN x |-> i], IsPos)

\* v[pos]
Take(v, pos) == [k \in DOMAIN pos |-> v[pos[k]]]

\* v[pos] = w
Put(v, pos, w) ==
    [i \in DOMAIN v |->
        IF \E k \in DOMAIN pos : pos[k] = i
        THEN w[CHOOSE k \in DOMAIN pos : pos[k] = i] ELSE v[i]]

Zeros(x) == [i \in DOMAIN x |-> R(0)]

(***************************************************************************)
(* atom.lagrange_prox / atom.bound_prox and their overrides.  A call       *)
(* returns [exc, ret]: the exception raised ("" when none) and the vector  *)
(* returned.                                                               *)
(***************************************************************************)
Raised(exc) == [exc |-> exc, ret |-> None]
Returned(v) == [exc |-> "", ret |-> v]

\* atom.lagrange_prox: the multiplier to use, None when the call raises
atom_lagrange_prox(self, lagrange) ==
    IF lagrange # None THEN lagrange ELSE self.lagrange

\* atom.bound_prox: the bound to use, None when the call raises
atom_bound_prox(self, bound) ==
    IF bound # None THEN bound ELSE self.bound

\* a variant: the threshold not divided by lipschitz
l1norm_lagrange_prox_unscaled(self, x, lipschitz, lagrange) ==
    [i \in DOMAIN x |->
        RMul(RSign(x[i]), RMax(RSub(RAbs(x[i]), lagrange), R(0)))]

l1norm_lagrange_prox(self, x, lipschitz, lagrange) ==
    [i \in DOMAIN x |->
        RMul(RSign(x[i]),
             RMax(RSub(RAbs(x[i]), RDiv(lagrange, lipschitz)), R(0)))]

\* projl1 is given self.bound, not the bound worked out; with no stored
\* bound the primitive is handed None and fails on it
l1norm_bound_prox(self, x, lipschitz, bound) ==
    IF self.bound = None THEN Raised("TypeError")
    ELSE Returned(projl1(x, self.bound))

supnorm_lagrange_prox(self, x, lipschitz, lagrange) ==
    VSub(x, projl1(x, RDiv(lagrange, lipschitz)))

supnorm_bound_prox(self, x, lipschitz, bound) == Clip(x, RNeg(bound), bound)

\* a variant: the multiplier not divided by lipschitz
l2norm_lagrange_prox_unscaled(self, x, lipschitz, lagrange) ==
    LET n == Norm2(x)
        proj == IF RLeq(n, lagrange) THEN x
                ELSE VScale(RDiv(lagrange, n), x)
    IN  VSub(x, proj)

l2norm_lagrange_prox(self, x, lipschitz, lagrange) ==
    LET n == Norm2(x)
        proj == IF RLeq(n, RDiv(lagrange, lipschitz)) THEN x
                ELSE VScale(RDiv(lagrange, RMul(lipschitz, n)), x)
    IN  VSub(x, proj)

l2norm_bound_prox(self, x, lipschitz, bound) ==
    LET n == Norm2(x)
    IN  IF RLeq(n, bound) THEN x ELSE VScale(RDiv(bound, n), x)

positive_part_lagrange_prox(self, x, lipschitz, lagrange) ==
    LET pos == Positive(x)
        shrunk == [k \in DOMAIN pos |->
                     RMax(RSub(x[pos[k]], RDiv(lagrange, lipschitz)), R(0))]
    IN  Put(x, pos, shrunk)

\* a variant: the projection written into a zero vector
positive_part_bound_prox_zeroed(self, x, lipschitz, bound) ==
    LET pos == Positive(x)
        v == Zeros(x)
    IN  IF pos # <<>> THEN Put(v, pos, projl1(Take(x, pos), bound)) ELSE v

positive_part_bound_prox(self, x, lipschitz, bound) ==
    LET pos == Positive(x)
    IN  IF pos # <<>> THEN Put(x, pos, projl1(Take(x, pos), bound)) ELSE x

constrained_max_lagrange_prox(self, x, lipschitz, lagrange) ==
    LET pos == Positive(x)
        v == IF pos # <<>>
             THEN Put(x, pos, projl1(Take(x, pos), RDiv(lagrange, lipschitz)))
             ELSE x
    IN  VSub(x, v)

constrained_max_bound_prox(self, x, lipschitz, bound) == Clip(x, R(0), bound)

constrained_positive_part_lagrange_prox(self, x, lipschitz, lagrange) ==
    LET pos == Positive(x)
        v == Zeros(x)
        shrunk == [k \in DOMAIN pos |->
                     RMax(RSub(x[pos[k]], RDiv(lagrange, lipschitz)), R(0))]
    IN  IF pos # <<>> THEN Put(v, pos, shrunk) ELSE v

\* v is the zero vector, and it is v[pos] that is projected
constrained_positive_part_bound_prox(self, x, lipschitz, bound) ==
    LET pos == Positive(x)
        v == Zeros(x)
    IN  IF pos # <<>> THEN Put(v, pos, projl1(Take(v, pos), bound)) ELSE v

max_positive_part_bound_prox(self, x, lipschitz, bound) == Clip(x, None, bound)

\* v is the zero vector, and it is v[pos] that is projected
max_positive_part_lagrange_prox(self, x, lipschitz, lagrange) ==
    LET pos == Positive(x)
        v == Zeros(x)
        w == IF pos # <<>>
             THEN Put(v, pos, projl1(Take(v, pos), RDiv(lagrange, lipschitz)))
             ELSE v
    IN  VSub(x, w)

\* self.lagrange_prox(x, lipschitz, lagrange) by the class of self
lagrange_prox(self, x, lipschitz, lagrange) ==
    LET lam == atom_lagrange_prox(self, lagrange)
    IN  IF lam = None THEN Raised("ValueError")
        ELSE CASE self.cls = "l1norm" ->
                    Returned(l1norm_lagrange_prox(self, x, lipschitz, lam))
               [] self.cls = "supnorm" ->
                    Returned(supnorm_lagrange_prox(self, x, lipschitz, lam))
               [] self.cls = "l2norm" ->
                    Returned(l2norm_lagrange_prox(self, x, lipschitz, lam))
               [] self.cls = "positive_part" ->
                    Returned(positive_part_lagrange_prox(self, x, lipschitz, lam))
               [] self.cls = "constrained_max" ->
                    Returned(constrained_max_lagrange_prox(self, x, lipschitz, lam))
               [] self.cls = "constrained_positive_part" ->
                    Returned(constrained_positive_part_lagrange_prox(self, x, lipschitz, lam))
               [] self.cls = "max_positive_part" ->
                    Returned(max_positive_part_lagrange_prox(self, x, lipschitz, lam))

\* self.bound_prox(x, lipschitz, bound) by the class of self
bound_prox(self, x, lipschitz, bound) ==
    LET b == atom_bound_prox(self, bound)
    IN  IF b = None THEN Raised("ValueError")
        ELSE CASE self.cls = "l1norm" -> l1norm_bound_prox(self, x, lipschitz, b)
               [] self.cls = "supnorm" ->
                    Returned(supnorm_bound_prox(self, x, lipschitz, b))
               [] self.cls = "l2norm" ->
                    Returned(l2norm_bound_prox(self, x, lipschitz, b))
               [] self.cls = "positive_part" ->
                    Returned(positive_part_bound_prox(self, x, lipschitz, b))
               [] self.cls = "constrained_max" ->
                    Returned(constrained_max_bound_prox(self, x, lipschitz, b))
               [] self.cls = "constrained_positive_part" ->
                    Returned(constrained_positive_part_bound_prox(self, x, lipschitz, b))
               [] self.cls = "max_positive_part" ->
                    Returned(max_positive_part_bound_prox(self, x, lipschitz, b))

(***************************************************************************)
(* atom.constraint and its overrides: 0 when x is feasible for the bound,  *)
(* np.inf when it is not.  np.inf is the fraction 1/0, above every number. *)
(***************************************************************************)
tol == Frac(1, 100000)
Inf == <<1, 0>>

\* bound * (1 + self.tol)
Slack(bound) == RMul(bound, RAdd(R(1), tol))

\* np.max(x)
MaxEntry(x) == MaxOf({x[i] : i \in DOMAIN x})

\* np.maximum(x, 0)
PosPart(x) == [i \in DOMAIN x |-> RMax(x[i], R(0))]

\* np.any(x < 0 + self.tol)
anyneg(x) == \E i \in DOMAIN x : RLt(x[i], RAdd(R(0), tol))

\* atom.constraint: the bound to use, None when the call raises
atom_constraint(self, bound) ==
    IF bound # None THEN bound ELSE self.bound

\* a variant: the bound taken without the slack
l1norm_constraint_exact(self, x, bound) ==
    IF RLeq(Norm1(x), bound) THEN R(0) ELSE Inf

l1norm_constraint(self, x, bound) ==
    IF RLeq(Norm1(x), Slack(bound)) THEN R(0) ELSE Inf

supnorm_constraint(self, x, bound) ==
    IF \A i \in DOMAIN x : RLeq(RAbs(x[i]), Slack(bound)) THEN R(0) ELSE Inf

l2norm_constraint(self, x, bound) ==
    IF RLeq(Norm2(x), Slack(bound)) THEN R(0) ELSE Inf

positive_part_constraint(self, x, bound) ==
    IF RLeq(VSum(PosPart(x)), Slack(bound)) THEN R(0) ELSE Inf

constrained_max_constraint(self, x, bound) ==
    IF RLeq(MaxEntry(x), Slack(bound)) /\ ~anyneg(x) THEN R(0) ELSE Inf

\* constrained_positive_part.seminorm(x, lagrange, check_feasibility)
constrained_positive_part_seminorm(self, x, lagrange, check_feasibility) ==
    IF ~anyneg(x) \/ ~check_feasibility
    THEN RMul(VSum(PosPart(x)), lagrange)
    ELSE Inf

constrained_positive_part_constraint(self, x, bound) ==
    IF ~RLt(constrained_positive_part_seminorm(self, x, R(1), TRUE), Slack(bound))
    THEN Inf ELSE R(0)

max_positive_part_constraint(self, x, bound) ==
    IF ~RLt(MaxEntry(PosPart(x)), Slack(bound)) THEN Inf ELSE R(0)

\* self.constraint(x, bound) by the class of self
constraint(self, x, bound) ==
    LET b == atom_constraint(self, bound)
    IN  IF b = None THEN Raised("ValueError")
        ELSE CASE self.cls = "l1norm" -> Returned(l1norm_constraint(self, x, b))
               [] self.cls = "supnorm" -> Returned(supnorm_constraint(self, x, b))
               [] self.cls = "l2norm" -> Returned(l2norm_constraint(self, x, b))
               [] self.cls = "positive_part" ->
                    Returned(positive_part_constraint(self, x, b))
               [] self.cls = "constrained_max" ->
                    Returned(constrained_max_constraint(self, x, b))
               [] self.cls = "constrained_positive_part" ->
                    Returned(constrained_positive_part_constraint(self, x, b))
               [] self.cls = "max_positive_part" ->
                    Returned(max_positive_part_constraint(self, x, b))

(***************************************************************************)
(* atom.proximal                                                           *)
(***************************************************************************)
\* the folded quadratic and offset of proximal(proxq)
proximal_total(self, proxq) ==
    recenter(quadratic_add(self.quadratic, proxq), self.offset)

\* -totalq.linear_term, not divided by the coefficient
proximal_arg_unscaled(totalq) == VNeg(totalq.linear_term)

\* -totalq.linear_term / totalq.coef
proximal_arg(totalq) ==
    [i \in DOMAIN totalq.linear_term |->
        RDiv(RNeg(totalq.linear_term[i]), totalq.coef)]

\* the call: [exc, ret], and inner, the prox call made (None when none is)
proximal(self, proxq) ==
    LET t == proximal_total(self, proxq)
        offset == t.offset
        totalq == t.quadratic
    IN  IF totalq.coef = R(0)
        THEN [exc |-> "ValueError", ret |-> None, inner |-> None]
        ELSE LET prox_arg == proximal_arg(totalq)
                 inner == IF self.bound # None
                          THEN [op |-> "bound_prox", x |-> prox_arg,
                                lipschitz |-> totalq.coef, arg |-> self.bound]
                          ELSE [op |-> "lagrange_prox", x |-> prox_arg,
                                lipschitz |-> totalq.coef, arg |-> self.lagrange]
                 eta == IF self.bound # None
                        THEN bound_prox(self, prox_arg, totalq.coef, self.bound)
                        ELSE lagrange_prox(self, prox_arg, totalq.coef, self.lagrange)
             IN  IF eta.exc # ""
                 THEN [exc |-> eta.exc, ret |-> None, inner |-> inner]
                 ELSE [exc |-> "",
                       ret |-> IF offset = None THEN eta.ret
                               ELSE VSub(eta.ret, offset),
                       inner |-> inner]

(***************************************************************************)
(* generalized_lasso.  An array is known by its shape.  The dual problem   *)
(* (signal_approximator) and the inner solver (FISTA) are known by the     *)
(* calls made on them: the dual problem keeps its response and its         *)
(* penalty, the solver counts its runs and the iterations of the last run. *)
(***************************************************************************)
dualcontrol == [max_its |-> 250, tol |-> "1.0e-16"]

Array(shape) == [shape |-> shape]

LassoClasses ==
    {"generalized_lasso", "generalized_lasso_sparse",
     "generalized_lasso_double_sparse"}

\* the class of the dual problem each class builds
dual_class(cls) ==
    IF cls = "generalized_lasso" THEN "signal_approximator"
    ELSE "signal_approximator_sparse"

\* signal_approximator((D, Y)): the outcomes of the constructor.  It builds
\* the problem when Y has as many entries as D has rows or columns; what it
\* does with another Y is not fixed here, so both outcomes are possible.
signal_approximator_init(D, Y) ==
    IF Y.shape[1] \in {D.shape[1], D.shape[2]} THEN {""} ELSE {"", "ValueError"}

\* the iterate and the residual an inner run has reached after its
\* iterations on a response and a penalty
Iterate(response, l1, its) ==
    [of |-> "primal", response |-> response, l1 |-> l1, its |-> its]
Residual(response, l1, its) ==
    [of |-> "residual", response |-> response, l1 |-> l1, its |-> its]

\* FISTA(problem)
FISTA == [runs |-> 0, its |-> 0, converged |-> FALSE, output |-> None]

\* FISTA.fit(max_its, tol): a new run from iteration 0, which stops after
\* its iterations, its <= max_its, converged or not; it does not raise
fit(opt, dual, max_its, its, converged) ==
    [runs |-> opt.runs + 1, its |-> its, converged |-> converged,
     output |-> <<Iterate(dual.Y, dual.l1, its), Residual(dual.Y, dual.l1, its)>>]

\* the ways a run under max_its can end
FitEnds(max_its) ==
    {e \in [its : {1, max_its - 1, max_its}, converged : BOOLEAN] :
        e.its < max_its => e.converged}

NoLasso ==
    [op |-> "none", cls |-> "", data |-> <<>>, p |-> 0, dual |-> None,
     dualopt |-> None, penalties |-> None, coefs |-> None, calls |-> 0,
     args |-> None, log |-> <<>>, exc |-> "", ret |-> None]

\* generalized_lasso.default_penalties
default_penalties == [l1 |-> R(0)]

\* generalized_lasso.default_coefs
default_coefs(p) == [i \in 1..p |-> R(0)]

\* initialize(data), dual being the outcome of the dual problem's
\* constructor
initialize(self, cls, data, dual) ==
    IF Len(data) = 3
    THEN IF dual # ""
         THEN [self EXCEPT !.op = "initialize", !.cls = cls, !.data = data,
                           !.exc = dual]
         ELSE [self EXCEPT !.op = "initialize", !.cls = cls, !.data = data,
                           !.p = data[1].shape[2],
                           !.dual = [cls |-> dual_class(cls), D |-> data[2],
                                     Y |-> data[3], l1 |-> R(0)],
                           !.dualopt = FISTA,
                           !.penalties = default_penalties,
                           !.coefs = default_coefs(data[1].shape[2])]
    ELSE [self EXCEPT !.op = "initialize", !.cls = cls, !.data = data,
                      !.exc = "ValueError"]

\* a variant: the inner solver run before the penalty is assigned
proximal_calls_fit_early(self, z, g, L) ==
    LET v == VSub(z, VScale(RDiv(R(1), L), g))
    IN  <<[call |-> "set_response", arg |-> v],
          [call |-> "fit", arg |-> dualcontrol],
          [call |-> "assign_penalty", arg |-> RDiv(self.penalties.l1, L)],
          [call |-> "output", arg |-> 1]>>

\* the calls proximal(z, g, L) makes, in order
proximal_calls(self, z, g, L) ==
    LET v == VSub(z, VScale(RDiv(R(1), L), g))
    IN  <<[call |-> "set_response", arg |-> v],
          [call |-> "assign_penalty", arg |-> RDiv(self.penalties.l1, L)],
          [call |-> "fit", arg |-> dualcontrol],
          [call |-> "output", arg |-> 1]>>

\* one call made by proximal; end is the way the inner run ends
make_call(self, c, end) ==
    CASE c.call = "set_response" ->
            [self EXCEPT !.dual.Y = c.arg, !.log = Append(@, c)]
      [] c.call = "assign_penalty" ->
            [self EXCEPT !.dual.l1 = c.arg, !.log = Append(@, c)]
      [] c.call = "fit" ->
            [self EXCEPT !.dualopt = fit(@, self.dual, c.arg.max_its,
                                         end.its, end.converged),
                         !.log = Append(@, c)]
      [] c.call = "output" ->
            [self EXCEPT !.ret = self.dualopt.output[c.arg],
                         !.log = Append(@, c)]

RECURSIVE make_calls(_, _, _, _)
make_calls(self, calls, k, end) ==
    IF k = 0 THEN self
    ELSE make_call(make_calls(self, calls, k - 1, end), calls[k], end)

\* generalized_lasso.proximal(z, g, L)
lasso_proximal(self, z, g, L, end) ==
    LET calls == proximal_calls(self, z, g, L)
        begun == [self EXCEPT !.op = "proximal", !.calls = @ + 1,
                              !.args = [z |-> z, g |-> g, L |-> L],
                              !.log = <<>>, !.exc = "", !.ret = None]
    IN  make_calls(begun, calls, Len(calls), end)

(***************************************************************************)
(* The calls, as actions.  last records the call just made: its name, its  *)
(* receiver, its arguments, the receiver (an atom) as it was before the    *)
(* call, the size of the heap before the call, the exception raised and    *)
(* the object returned.                                                    *)
(***************************************************************************)
Call(op, self, lagrange, bound, pre, exc, ret) ==
    [op |-> op, self |-> self, lagrange |-> lagrange, bound |-> bound,
     pre |-> pre, n |-> Len(atoms), exc |-> exc, ret |-> ret,
     atransform |-> None]

NoProx ==
    [op |-> "none", self |-> 0, x |-> None, proxq |-> None, lipschitz |-> None,
     arg |-> None, exc |-> "", ret |-> None, inner |-> None]

Init ==
    /\ atoms = <<>>
    /\ affines = <<>>
    /\ last = [op |-> "none", self |-> 0, lagrange |-> None, bound |-> None,
               pre |-> <<>>, n |-> 0, exc |-> "", ret |-> 0,
               atransform |-> None]
    /\ prox = NoProx
    /\ gl = NoLasso

\* cls(primal_shape, lagrange=, bound=, offset=, quadratic=): the program
\* builds one atom; every other atom of the heap derives from it
Construct(cls, lagrange, bound, offset, quadratic) ==
    LET made == atom_init(cls, lagrange, bound, offset, quadratic)
    IN  /\ atoms = <<>>
        /\ atoms' = IF made = <<>> THEN atoms ELSE hold(Append(atoms, made[1]), 1)
        /\ last' = Call("init", 0, lagrange, bound, <<>>,
                        IF made = <<>> THEN "ValueError" ELSE "",
                        IF made = <<>> THEN 0 ELSE Len(atoms) + 1)
        /\ UNCHANGED <<affines, prox, gl>>

\* a.conjugate
GetConjugate(i) ==
    LET r == get_conjugate(atoms, i)
    IN  /\ Held(atoms[i])
        /\ Len(r.heap) <= MaxAtoms
        /\ atoms' = IF r.ret = 0 THEN r.heap ELSE hold(r.heap, r.ret)
        /\ last' = Call("conjugate", i, None, None, <<atoms[i]>>, r.exc, r.ret)
        /\ UNCHANGED <<affines, prox, gl>>

\* a.lagrange = v
SetLagrange(i, v) ==
    LET r == set_lagrange(atoms, i, v)
    IN  /\ Held(atoms[i])
        /\ Len(r.heap) <= MaxAtoms
        /\ atoms' = r.heap
        /\ last' = Call("set_lagrange", i, v, None, <<atoms[i]>>, r.exc, 0)
        /\ UNCHANGED <<affines, prox, gl>>

\* a.bound = v
SetBound(i, v) ==
    LET r == set_bound(atoms, i, v)
    IN  /\ Held(atoms[i])
        /\ Len(r.heap) <= MaxAtoms
        /\ atoms' = r.heap
        /\ last' = Call("set_bound", i, None, v, <<atoms[i]>>, r.exc, 0)
        /\ UNCHANGED <<affines, prox, gl>>

\* affine_atom(atom_obj, atransform): the program builds one affine_atom
AffineInit(i, affine_offset) ==
    LET made == affine_atom_init(atoms[i], affine_offset)
    IN  /\ Held(atoms[i])
        /\ Len(atoms) < MaxAtoms
        /\ affines = <<>>
        /\ atoms' = IF made = <<>> THEN atoms
                    ELSE hold(Append(atoms, made[1].atom), Len(atoms) + 1)
        /\ affines' = IF made = <<>> THEN affines
                      ELSE Append(affines, [made[1] EXCEPT !.atom = Len(atoms) + 1])
        /\ last' = [Call("affine_init", i, None, None, <<atoms[i]>>,
                         IF made = <<>> THEN "ValueError" ELSE "",
                         IF made = <<>> THEN 0 ELSE Len(affines) + 1)
                       EXCEPT !.atransform = [affine_offset |-> affine_offset]]
        /\ UNCHANGED <<prox, gl>>

\* w.lagrange = v on an affine_atom
AffineSetLagrange(k, v) ==
    LET r == affine_set_lagrange(atoms, affines[k], v)
    IN  /\ Len(r.heap) <= MaxAtoms
        /\ atoms' = r.heap
        /\ last' = Call("affine_set_lagrange", k, v, None,
                        <<atoms[affines[k].atom]>>, r.exc, 0)
        /\ UNCHANGED <<affines, prox, gl>>

\* w.bound = v on an affine_atom
AffineSetBound(k, v) ==
    LET r == affine_set_bound(atoms, affines[k], v)
    IN  /\ Len(r.heap) <= MaxAtoms
        /\ atoms' = r.heap
        /\ last' = Call("affine_set_bound", k, None, v,
                        <<atoms[affines[k].atom]>>, r.exc, 0)
        /\ UNCHANGED <<affines, prox, gl>>

(***************************************************************************)
(* The proximal maps, as actions.  prox records the call made: the maps    *)
(* leave the atom as it is, and the program makes one call.  The norm of   *)
(* the point given to an l2norm is a fraction.                             *)
(***************************************************************************)
Pad(v) == [i \in 1..Shape |-> IF i <= Len(v) THEN v[i] ELSE R(0)]

Points ==
    {Pad(<<R(3), R(-1), Frac(1, 2)>>), Pad(<<R(2), R(-1), R(2)>>),
     Pad(<<R(-1), R(-2), R(-2)>>), Pad(<<R(0), R(1), R(0)>>), ZeroVec}

ProxArgs == {None, R(0), R(2)}
Lipschitz == {R(1), R(2)}

ProxQs ==
    {identity_quadratic(coef, center, linear_term, R(0)) :
        coef \in {R(0), R(1), R(2)}, center \in Points,
        linear_term \in {None, Pad(<<R(1), R(0), R(-2)>>)}}

\* a.lagrange_prox(x, lipschitz, lagrange)
LagrangeProx(i, x, lipschitz, lagrange) ==
    LET r == lagrange_prox(atoms[i], x, lipschitz, lagrange)
    IN  /\ prox = NoProx
        /\ Held(atoms[i])
        /\ atoms[i].cls = "l2norm" => NormDefined(x)
        /\ prox' = [op |-> "lagrange_prox", self |-> i, x |-> x,
                    proxq |-> None, lipschitz |-> lipschitz, arg |-> lagrange,
                    exc |-> r.exc, ret |-> r.ret, inner |-> None]
        /\ UNCHANGED <<atoms, affines, last, gl>>

\* a.bound_prox(x, lipschitz, bound)
BoundProx(i, x, lipschitz, bound) ==
    LET r == bound_prox(atoms[i], x, lipschitz, bound)
    IN  /\ prox = NoProx
        /\ Held(atoms[i])
        /\ atoms[i].cls = "l2norm" => NormDefined(x)
        /\ prox' = [op |-> "bound_prox", self |-> i, x |-> x,
                    proxq |-> None, lipschitz |-> lipschitz, arg |-> bound,
                    exc |-> r.exc, ret |-> r.ret, inner |-> None]
        /\ UNCHANGED <<atoms, affines, last, gl>>

\* a.proximal(proxq)
Proximal(i, proxq) ==
    LET r == proximal(atoms[i], proxq)
    IN  /\ prox = NoProx
        /\ Held(atoms[i])
        /\ LET totalq == proximal_total(atoms[i], proxq).quadratic
           IN  (atoms[i].cls = "l2norm" /\ totalq.coef # R(0))
                   => NormDefined(proximal_arg(totalq))
        /\ prox' = [op |-> "proximal", self |-> i, x |-> None,
                    proxq |-> proxq, lipschitz |-> None, arg |-> None,
                    exc |-> r.exc, ret |-> r.ret, inner |-> r.inner]
        /\ UNCHANGED <<atoms, affines, last, gl>>

\* points at and about the edge of the L1 ball of radius 1 and of its slack
EdgePoints ==
    {Pad(<<R(1), Frac(1, 10000000)>>), Pad(<<R(-1), Frac(1, 10)>>),
     Pad(<<Frac(100001, 100000)>>), Pad(<<Frac(-50001, 50000)>>),
     Pad(<<Frac(1, 2), Frac(-1, 2)>>)}

\* a.constraint(x, bound)
Constraint(i, x, bound) ==
    LET r == constraint(atoms[i], x, bound)
    IN  /\ prox = NoProx
        /\ Held(atoms[i])
        /\ atoms[i].cls = "l2norm" => (x \in Points /\ NormDefined(x))
        /\ prox' = [op |-> "constraint", self |-> i, x |-> x,
                    proxq |-> None, lipschitz |-> None, arg |-> bound,
                    exc |-> r.exc, ret |-> r.ret, inner |-> None]
        /\ UNCHANGED <<atoms, affines, last, gl>>

\* a.constraint(a.bound_prox(x, bound=bound), bound=bound): the feasibility
\* test of the atom on the result of its bound-mode proximal step, with the
\* default lipschitz of 1; an exception of the first call ends the second
BoundProxConstraint(i, x, bound) ==
    LET p == bound_prox(atoms[i], x, R(1), bound)
        r == IF p.exc # "" THEN p ELSE constraint(atoms[i], p.ret, bound)
    IN  /\ prox = NoProx
        /\ Held(atoms[i])
        /\ atoms[i].cls = "l2norm" => NormDefined(x)
        /\ prox' = [op |-> "bound_prox_constraint", self |-> i, x |-> x,
                    proxq |-> None, lipschitz |-> R(1), arg |-> bound,
                    exc |-> r.exc, ret |-> r.ret, inner |-> p.ret]
        /\ UNCHANGED <<atoms, affines, last, gl>>

(***************************************************************************)
(* generalized_lasso, as actions: the program builds one problem.          *)
(***************************************************************************)
MaxCalls == 2

Data ==
    LET Xs == {Array(<<2, Shape>>), Array(<<2, 2>>)}
        Ds == {Array(<<1, Shape>>), Array(<<2, 2>>)}
        Ys == {Array(<<2>>), Array(<<Shape>>)}
    IN  {<<X, D, Y>> : X \in Xs, D \in Ds, Y \in Ys}
        \cup {<<X, D>> : X \in Xs, D \in Ds}
        \cup {<<X, D, Y, Y>> : X \in Xs, D \in Ds, Y \in Ys}

Penalties == {R(1), R(2)}

\* cls(data): the constructor hands data to initialize
Initialize(cls, data) ==
    /\ gl.op = "none"
    /\ \E dual \in (IF Len(data) = 3
                    THEN signal_approximator_init(data[2], data[3]) ELSE {""}) :
          gl' = initialize(gl, cls, data, dual)
    /\ UNCHANGED <<atoms, affines, last, prox>>

\* problem.assign_penalty(l1=l1)
AssignPenalty(l1) ==
    /\ gl.penalties # None
    /\ gl.calls < MaxCalls
    /\ gl' = [gl EXCEPT !.op = "assign_penalty", !.penalties = [l1 |-> l1],
                        !.args = None, !.log = <<>>, !.exc = "", !.ret = None]
    /\ UNCHANGED <<atoms, affines, last, prox>>

\* problem.proximal(z, g, L), z and g of the length of the coefficients
LassoProximal(z, g, L) ==
    /\ gl.dual # None
    /\ gl.p = Shape
    /\ gl.calls < MaxCalls
    /\ \E end \in FitEnds(dualcontrol.max_its) :
          gl' = lasso_proximal(gl, z, g, L, end)
    /\ UNCHANGED <<atoms, affines, last, prox>>

(***************************************************************************)
(* Spec: one atom, its conjugates and the assignments to lagrange and      *)
(* bound.  The atom is one of Roots: an atom in lagrange mode, one in      *)
(* bound mode with an offset and a linear term, one of weight zero; or a   *)
(* construction that raises.                                               *)
(***************************************************************************)
Args(cls, lagrange, bound, offset, quadratic) ==
    [cls |-> cls, lagrange |-> lagrange, bound |-> bound, offset |-> offset,
     quadratic |-> quadratic]

AnOffset == CHOOSE o \in Offsets : o # None
ALinearQuadratic == CHOOSE q \in Quadratics : q # None /\ q.coef = R(0)

Roots ==
    {Args("l1norm", R(1), None, None, None),
     Args("constrained_max", None, R(1), AnOffset, ALinearQuadratic),
     Args("l2norm", R(0), None, None, None),
     Args("supnorm", R(1), R(1), None, None),
     Args("positive_part", None, R(-1), None, None)}

ConstructRoot(a) == Construct(a.cls, a.lagrange, a.bound, a.offset, a.quadratic)

Next ==
    \/ \E a \in Roots : ConstructRoot(a)
    \/ \E i \in DOMAIN atoms : GetConjugate(i)
    \/ \E i \in DOMAIN atoms, v \in SetWeights : SetLagrange(i, v)
    \/ \E i \in DOMAIN atoms, v \in SetWeights : SetBound(i, v)

Spec == Init /\ [][Next]_vars

(***************************************************************************)
(* AffineSpec: one atom, the affine_atom that wraps a copy of it, and the   *)
(* assignments to lagrange and bound on both.                              *)
(***************************************************************************)
NextAffine ==
    \/ \E a \in Roots : ConstructRoot(a)
    \/ \E i \in DOMAIN atoms, v \in SetWeights : SetLagrange(i, v)
    \/ \E i \in DOMAIN atoms, v \in SetWeights : SetBound(i, v)
    \/ \E i \in DOMAIN atoms, o \in Offsets : AffineInit(i, o)
    \/ \E k \in DOMAIN affines, v \in SetWeights : AffineSetLagrange(k, v)
    \/ \E k \in DOMAIN affines, v \in SetWeights : AffineSetBound(k, v)

AffineSpec == Init /\ [][NextAffine]_vars

(***************************************************************************)
(* ConjSpec: the constructor with every combination of arguments, and the  *)
(* conjugates of the atom it builds.                                       *)
(***************************************************************************)
NextConj ==
    \/ \E cls \in AtomClasses, l \in CtorWeights, b \in CtorWeights,
          o \in Offsets, q \in Quadratics : Construct(cls, l, b, o, q)
    \/ \E i \in DOMAIN atoms : GetConjugate(i)

ConjSpec == Init /\ [][NextConj]_vars

(***************************************************************************)
(* ProxSpec: the constructor with every combination of arguments, and the  *)
(* proximal maps of the atom it builds.                                    *)
(***************************************************************************)
NextProx ==
    \/ \E cls \in AtomClasses, l \in CtorWeights, b \in CtorWeights,
          o \in Offsets, q \in Quadratics : Construct(cls, l, b, o, q)
    \/ \E i \in DOMAIN atoms, x \in Points, L \in Lipschitz, v \in ProxArgs :
          LagrangeProx(i, x, L, v)
    \/ \E i \in DOMAIN atoms, x \in Points, L \in Lipschitz, v \in ProxArgs :
          BoundProx(i, x, L, v)
    \/ \E i \in DOMAIN atoms, q \in ProxQs : Proximal(i, q)
    \/ \E i \in DOMAIN atoms, x \in Points \cup EdgePoints,
          b \in ProxArgs \cup {R(1)} : Constraint(i, x, b)
    \/ \E i \in DOMAIN atoms, x \in Points, b \in ProxArgs \cup {R(1)} :
          BoundProxConstraint(i, x, b)

ProxSpec == Init /\ [][NextProx]_vars

(***************************************************************************)
(* LassoSpec: one generalized lasso problem, its penalty and its proximal  *)
(* map.                                                                    *)
(***************************************************************************)
NextLasso ==
    \/ \E cls \in LassoClasses, data \in Data : Initialize(cls, data)
    \/ \E l1 \in Penalties : AssignPenalty(l1)
    \/ \E z \in {Pad(<<R(5), R(-5), Frac(1, 10)>>), ZeroVec},
          g \in {ZeroVec, Pad(<<R(2), R(0), R(-1)>>)}, L \in Lipschitz :
          LassoProximal(z, g, L)

LassoSpec == Init /\ [][NextLasso]_vars

(***************************************************************************)
(* Properties of the mode of an atom.                                      *)
(***************************************************************************)
ExactlyOneSet(a) == (a.lagrange = None) # (a.bound = None)

WeightNonNegative(a) ==
    /\ a.lagrange # None => RLeq(R(0), a.lagrange)
    /\ a.bound # None => RLeq(R(0), a.bound)

\* the atom a call of last was made on: the receiver, or the atom an
\* affine_atom wraps
Receiver ==
    IF last.op \in {"affine_set_lagrange", "affine_set_bound"}
    THEN affines[last.self].atom ELSE last.self

\* C1: in every reachable state, every atom has exactly one of lagrange and
\* bound set, and the one that is set is >= 0.
C1_ExactlyOneModeNonNegative ==
    \A i \in DOMAIN atoms :
        IsAtom(atoms[i]) => ExactlyOneSet(atoms[i]) /\ WeightNonNegative(atoms[i])

\* C2: the constructor succeeds if and only if exactly one of lagrange and
\* bound is given and that one is >= 0; when it raises, no atom is made, and
\* when it succeeds the atom holds the given value.
C2_ConstructionSucceedsIff ==
    last.op = "init" =>
        LET one == (last.lagrange = None) # (last.bound = None)
            given == IF last.lagrange # None THEN last.lagrange ELSE last.bound
            valid == one /\ RLeq(R(0), given)
        IN  /\ (last.exc = "") <=> valid
            /\ last.exc # "" => last.ret = 0 /\ Len(atoms) = last.n
            /\ last.exc = "" =>
                 /\ Len(atoms) = last.n + 1
                 /\ atoms[last.ret].lagrange = last.lagrange
                 /\ atoms[last.ret].bound = last.bound

C2_Witness ==
    /\ last.op = "init" /\ last.exc = "ValueError"
    /\ last.lagrange = None /\ last.bound = R(-1)
    /\ atoms = <<>>

\* C3: assigning bound on an atom or affine_atom in lagrange mode, or
\* lagrange on one in bound mode, raises, and leaves the atom (its lagrange
\* and bound with it) and the heap as they were.
C3_WrongModeAssignmentRaises ==
    LET wrong ==
            \/ /\ last.op \in {"set_bound", "affine_set_bound"}
               /\ last.pre[1].lagrange # None
            \/ /\ last.op \in {"set_lagrange", "affine_set_lagrange"}
               /\ last.pre[1].bound # None
    IN  wrong =>
            /\ last.exc = "AttributeError"
            /\ atoms[Receiver] = last.pre[1]
            /\ Len(atoms) = last.n

C3_Witness ==
    /\ last.op = "affine_set_bound"
    /\ last.bound = R(2)
    /\ last.pre[1].lagrange = R(1)
    /\ last.exc = "AttributeError"
    /\ atoms[Receiver].lagrange = R(1)

\* C4: an access to a.conjugate on an atom whose _conjugate already is an
\* object the caller was given (the one an earlier access returned, or, by
\* the cross-link, the atom this one is the conjugate of) returns that
\* object.
C4_ConjugateCached ==
    (/\ last.op = "conjugate" /\ last.exc = ""
     /\ last.pre[1].conj # 0
     /\ atoms[last.pre[1].conj].held)
        => last.ret = last.pre[1].conj

SameAtomValue(x, y) ==
    /\ x.cls = y.cls
    /\ x.lagrange = y.lagrange
    /\ x.bound = y.bound
    /\ VecValue(x.offset) = VecValue(y.offset)
    /\ x.quadratic.coef = y.quadratic.coef
    /\ VecValue(x.quadratic.center) = VecValue(y.quadratic.center)
    /\ VecValue(x.quadratic.linear_term) = VecValue(y.quadratic.linear_term)
    /\ x.quadratic.constant_term = y.quadratic.constant_term

\* C5: when a.conjugate.conjugate is evaluated (the second access is made
\* on the object c the first one built from a, so c's _conjugate is the
\* older object a), the atom returned has the subtype, mode, weight, offset
\* and quadratic of a.
C5_ConjugateInvolution ==
    (/\ last.op = "conjugate"
     /\ last.pre[1].conj # 0
     /\ last.pre[1].conj < last.self)
        => /\ last.exc = ""
           /\ SameAtomValue(atoms[last.ret], atoms[last.pre[1].conj])

C5_Witness ==
    /\ last.op = "conjugate" /\ last.self = 2 /\ last.ret = 3
    /\ last.pre[1].conj = 1
    /\ atoms[1].offset = AnOffset
    /\ atoms[1].quadratic.linear_term = ALinearQuadratic.linear_term
    /\ atoms[3].offset = AnOffset
    /\ atoms[3].quadratic.linear_term = ALinearQuadratic.linear_term
    /\ atoms[3].quadratic.constant_term = ALinearQuadratic.constant_term

\* the pairing table as the specification gives it
ClaimedPairs ==
    [c \in AtomClasses \cup {"nonnegative", "nonpositive"} |->
        CASE c = "l1norm" -> "supnorm"
          [] c = "supnorm" -> "l1norm"
          [] c = "l2norm" -> "l2norm"
          [] c = "positive_part" -> "constrained_max"
          [] c = "constrained_max" -> "positive_part"
          [] c = "constrained_positive_part" -> "max_positive_part"
          [] c = "max_positive_part" -> "constrained_positive_part"
          [] c = "nonnegative" -> "nonpositive"
          [] c = "nonpositive" -> "nonnegative"]

\* the conjugate just returned has the paired subtype and the other mode,
\* with the weight of the atom it was taken of
ConjugateSwapsMode ==
    (last.op = "conjugate" /\ last.pre[1].quadratic.coef = R(0)) =>
        /\ last.exc = ""
        /\ atoms[last.ret].cls = conjugate_seminorm_pairs[last.pre[1].cls]
        /\ last.pre[1].bound = None =>
             /\ atoms[last.ret].bound = last.pre[1].lagrange
             /\ atoms[last.ret].lagrange = None
        /\ last.pre[1].bound # None =>
             /\ atoms[last.ret].lagrange = last.pre[1].bound
             /\ atoms[last.ret].bound = None

C7_ProximalDispatch ==
    prox.op = "proximal" =>
        LET self == atoms[prox.self]
            folded == recenter(quadratic_add(self.quadratic, prox.proxq),
                               self.offset)
            Q == folded.quadratic
            at == [i \in 1..Shape |-> RDiv(RNeg(Q.linear_term[i]), Q.coef)]
            P == IF self.bound # None
                 THEN bound_prox(self, at, Q.coef, self.bound)
                 ELSE lagrange_prox(self, at, Q.coef, self.lagrange)
        IN  IF Q.coef = R(0) THEN prox.exc # "" /\ prox.inner = None
            ELSE /\ prox.exc = ""
                 /\ prox.inner =
                        [op |-> IF self.bound # None THEN "bound_prox"
                                ELSE "lagrange_prox",
                         x |-> at, lipschitz |-> Q.coef,
                         arg |-> IF self.bound # None THEN self.bound
                                 ELSE self.lagrange]
                 /\ prox.ret = IF folded.offset = None THEN P.ret
                               ELSE VSub(P.ret, folded.offset)

\* an atom in bound mode with an offset has answered proximal, the folded
\* coefficient being 2, and an atom has refused a folded coefficient of 0
C7_Witness ==
    /\ prox.op = "proximal"
    /\ prox.exc = ""
    /\ atoms[prox.self].bound # None
    /\ atoms[prox.self].offset # None
    /\ prox.inner.lipschitz = R(2)
    /\ prox.inner.op = "bound_prox"
    /\ prox.ret # prox.inner.x

\* the value lagrange_prox / bound_prox keeps in the atom
Stored(a, op) == IF op = "lagrange_prox" THEN a.lagrange ELSE a.bound

\* the atom a with v as the only stored value, of the kind op reads
WithStored(a, op, v) ==
    IF op = "lagrange_prox" THEN [a EXCEPT !.lagrange = v, !.bound = None]
    ELSE [a EXCEPT !.bound = v, !.lagrange = None]

ProxOf(a, op, x, lipschitz, v) ==
    IF op = "lagrange_prox" THEN lagrange_prox(a, x, lipschitz, v)
    ELSE bound_prox(a, x, lipschitz, v)

\* C8: lagrange_prox and bound_prox of every atom class compute with the
\* value passed when one is passed: the result is the one an atom of that
\* class storing this value gives.  They compute with the stored value
\* when none is passed, and raise when none is passed and none is stored.
C8_ProxArgumentOrStored ==
    prox.op \in {"lagrange_prox", "bound_prox"} =>
        LET self == atoms[prox.self]
            stored == Stored(self, prox.op)
        IN  IF prox.arg # None
            THEN /\ prox.exc = ""
                 /\ prox.ret = ProxOf(WithStored(self, prox.op, prox.arg),
                                      prox.op, prox.x, prox.lipschitz, None).ret
            ELSE IF stored # None
            THEN /\ prox.exc = ""
                 /\ prox.ret = ProxOf(self, prox.op, prox.x, prox.lipschitz,
                                      stored).ret
            ELSE prox.exc # ""

(***************************************************************************)
(* generalized_lasso.                                                      *)
(***************************************************************************)
\* C9: every proximal(z, g, L) sets the dual problem's response to
\* z - g/L, then assigns the dual penalty l1 = penalties['l1']/L, then runs
\* the inner solver with max_its = 250 and tol = 1e-16, each once, and
\* returns the first component of the solver's output, the iterate of that
\* run on that response and penalty; it does not raise, also when the run
\* used the budget without converging; each call is one new run.
C9_ProximalCallsInOrder ==
    gl.op = "proximal" =>
        LET v == [i \in 1..Shape |->
                     RSub(gl.args.z[i], RDiv(gl.args.g[i], gl.args.L))]
            l1 == RDiv(gl.penalties.l1, gl.args.L)
        IN  /\ [k \in DOMAIN gl.log |-> gl.log[k].call] =
                   <<"set_response", "assign_penalty", "fit", "output">>
            /\ gl.log[1].arg = v
            /\ gl.log[2].arg = l1
            /\ gl.log[3].arg = [max_its |-> 250, tol |-> "1.0e-16"]
            /\ gl.log[4].arg = 1
            /\ gl.exc = ""
            /\ gl.ret = gl.dualopt.output[1]
            /\ gl.ret = Iterate(v, l1, gl.dualopt.its)
            /\ gl.dualopt.its <= 250
            /\ gl.dualopt.runs = gl.calls

\* a second proximal call has returned the iterate of a run that used the
\* whole budget without converging
C9_Witness ==
    /\ gl.op = "proximal"
    /\ gl.calls = 2
    /\ gl.dualopt.its = 250
    /\ ~gl.dualopt.converged
    /\ gl.args.L = R(2)
    /\ gl.penalties.l1 = R(1)
    /\ gl.ret = gl.dualopt.output[1]

\* data is (X, D, Y) with X of shape (n, p), D of shape (m, p) and Y of
\* length n
MatchingData(data) ==
    /\ Len(data) = 3
    /\ data[1].shape[2] = data[2].shape[2]
    /\ data[3].shape = <<data[1].shape[1]>>

\* C10: initialize(data) of every generalized lasso class raises when data
\* is not a 3-tuple (X, D, Y) of matching dimensions, and then no dual
\* problem and no inner solver has been created.
C10_InitializeFailsFast ==
    (gl.op = "initialize" /\ ~MatchingData(gl.data)) =>
        /\ gl.exc # ""
        /\ gl.dual = None
        /\ gl.dualopt = None

(***************************************************************************)
(* affine_atom.__init__                                                    *)
(***************************************************************************)
\* C11: after affine_atom(atom_obj, T) is constructed, the stored
\* linear_transform has no affine offset; the offset of the wrapped atom is
\* atom_obj's offset plus T's affine offset when T has one (T's alone when
\* atom_obj has none, atom_obj's when T has none); and atom_obj (offset,
\* mode, weight) is as it was before.
C11_AffineOffsetFolded ==
    (last.op = "affine_init" /\ last.exc = "") =>
        LET w == affines[last.ret]
            wrapped == atoms[w.atom]
            atom_obj == last.pre[1]
            t == last.atransform.affine_offset
        IN  /\ w.linear_transform.affine_offset = None
            /\ wrapped.offset =
                  IF t = None THEN atom_obj.offset
                  ELSE IF atom_obj.offset = None THEN t
                  ELSE [i \in 1..Shape |-> RAdd(atom_obj.offset[i], t[i])]
            /\ wrapped.cls = atom_obj.cls
            /\ wrapped.lagrange = atom_obj.lagrange
            /\ wrapped.bound = atom_obj.bound
            /\ w.atom # last.self
            /\ atoms[last.self] = atom_obj

\* an atom with an offset has been wrapped with a transform that has one
C11_Witness ==
    /\ last.op = "affine_init"
    /\ last.exc = ""
    /\ last.pre[1].offset # None
    /\ last.atransform.affine_offset # None
    /\ atoms[affines[last.ret].atom].offset # last.pre[1].offset
    /\ atoms[last.self].offset = last.pre[1].offset

(***************************************************************************)
(* The closed forms of the proximal maps.                                  *)
(***************************************************************************)
\* the atom that answered the prox call, and the weight the call computes
\* with: the one passed, or the stored one
ProxAtom == atoms[prox.self]
ProxWeight == IF prox.arg # None THEN prox.arg ELSE Stored(ProxAtom, prox.op)

\* C12: for an l1norm, lagrange_prox(u, lipschitz=L, lagrange=lam) is in
\* every coordinate the soft threshold of u_i at lam/L: u_i - lam/L above
\* lam/L, u_i + lam/L below -lam/L, 0 between; with lam = 2, L = 1 and
\* u = [3, -1, 0.5] it is [1, 0, 0].
C12_L1SoftThreshold ==
    (/\ prox.op = "lagrange_prox"
     /\ ProxAtom.cls = "l1norm"
     /\ ProxWeight # None) =>
        LET t == RDiv(ProxWeight, prox.lipschitz)
            u == prox.x
        IN  /\ prox.exc = ""
            /\ \A i \in 1..Shape :
                  prox.ret[i] = IF RLt(t, u[i]) THEN RSub(u[i], t)
                                ELSE IF RLt(u[i], RNeg(t)) THEN RAdd(u[i], t)
                                ELSE R(0)
            /\ (/\ ProxWeight = R(2)
                /\ prox.lipschitz = R(1)
                /\ u = Pad(<<R(3), R(-1), Frac(1, 2)>>))
                  => prox.ret = Pad(<<R(1), R(0), R(0)>>)

\* lagrange_prox([3, -1, 0.5], lipschitz=1, lagrange=2) has been called on
\* an l1norm
C12_Witness ==
    /\ prox.op = "lagrange_prox"
    /\ ProxAtom.cls = "l1norm"
    /\ prox.arg = R(2)
    /\ prox.lipschitz = R(1)
    /\ prox.x = Pad(<<R(3), R(-1), Frac(1, 2)>>)
    /\ prox.ret = Pad(<<R(1), R(0), R(0)>>)

\* the shrinkage factor 1 - (lam/L) / ||x||_2 of the l2norm
L2Factor(t, n) == RSub(R(1), RDiv(t, n))

\* what C13 says of the result but for the range of the factor: zero
\* exactly when ||x||_2 <= lam/L, x scaled by the factor otherwise, and the
\* scaled form is zero too where ||x||_2 = lam/L
L2Shrinks(t, n) ==
    /\ prox.exc = ""
    /\ (prox.ret = ZeroVec) <=> RLeq(n, t)
    /\ ~RLeq(n, t) =>
          prox.ret = [i \in 1..Shape |-> RMul(L2Factor(t, n), prox.x[i])]
    /\ (n = t /\ n # R(0)) =>
          [i \in 1..Shape |-> RMul(L2Factor(t, n), prox.x[i])] = ZeroVec

L2Call ==
    /\ prox.op = "lagrange_prox"
    /\ ProxAtom.cls = "l2norm"
    /\ ProxWeight # None

\* C13 as stated: for an l2norm, lagrange_prox(x) is the zero vector
\* exactly when ||x||_2 <= lam/L and otherwise x scaled by
\* 1 - (lam/L)/||x||_2, a factor strictly between 0 and 1; both forms give
\* zero at ||x||_2 = lam/L.
C13_AsStated ==
    L2Call =>
        LET t == RDiv(ProxWeight, prox.lipschitz)
            n == Norm2(prox.x)
        IN  /\ L2Shrinks(t, n)
            /\ ~RLeq(n, t) => /\ RLt(R(0), L2Factor(t, n))
                              /\ RLt(L2Factor(t, n), R(1))

\* C13: for an l2norm, lagrange_prox(x) is the zero vector exactly when
\* ||x||_2 <= lam/L and otherwise x scaled by 1 - (lam/L)/||x||_2, a factor
\* above 0 and at most 1, which is 1 exactly when lam = 0; both forms give
\* zero at ||x||_2 = lam/L.
C13_L2Shrinkage ==
    L2Call =>
        LET t == RDiv(ProxWeight, prox.lipschitz)
            n == Norm2(prox.x)
        IN  /\ L2Shrinks(t, n)
            /\ ~RLeq(n, t) => /\ RLt(R(0), L2Factor(t, n))
                              /\ RLeq(L2Factor(t, n), R(1))
                              /\ (L2Factor(t, n) = R(1)) <=> (ProxWeight = R(0))

\* an l2norm has answered at a point whose norm is lam/L, not zero
C13_Witness ==
    /\ L2Call
    /\ prox.x # ZeroVec
    /\ Norm2(prox.x) = RDiv(ProxWeight, prox.lipschitz)
    /\ prox.lipschitz = R(2)
    /\ prox.ret = ZeroVec

(***************************************************************************)
(* The feasibility tests.                                                  *)
(***************************************************************************)
\* C14: l1norm.constraint(x, bound) is 0 if and only if the sum of the
\* |x_i| is at most bound * (1 + 1e-5), and np.inf otherwise; for bound = 1
\* it is 0 at an x of L1 norm 1.0000001 and np.inf at one of L1 norm 1.1.
C14_L1ConstraintSlack ==
    (/\ prox.op = "constraint"
     /\ ProxAtom.cls = "l1norm"
     /\ ProxWeight # None) =>
        LET norm == SumTo([i \in 1..Shape |-> RAbs(prox.x[i])], Shape)
            edge == <<ProxWeight[1] * 100001, ProxWeight[2] * 100000>>
        IN  /\ prox.exc = ""
            /\ prox.ret \in {R(0), Inf}
            /\ (prox.ret = R(0)) <=> RLeq(norm, edge)
            /\ (ProxWeight = R(1) /\ norm = <<10000001, 10000000>>)
                  => prox.ret = R(0)
            /\ (ProxWeight = R(1) /\ norm = <<11, 10>>) => prox.ret = Inf

\* constraint(x, bound=1) has answered 0 on an l1norm at an x of L1 norm
\* 1.0000001
C14_Witness ==
    /\ prox.op = "constraint"
    /\ ProxAtom.cls = "l1norm"
    /\ prox.arg = R(1)
    /\ prox.x = Pad(<<R(1), Frac(1, 10000000)>>)
    /\ prox.ret = R(0)

(***************************************************************************)
(* The proximal maps of the positive-part atoms.                           *)
(***************************************************************************)
\* the vector that is the Euclidean projection of the positive entries of
\* u onto the L1 ball of the given radius at the positions of those
\* entries, and rest[i] elsewhere
PositiveProjection(u, radius, rest) ==
    LET pos == Positive(u)
        p == projl1(Take(u, pos), radius)
    IN  [i \in DOMAIN u |->
            IF \E k \in DOMAIN pos : pos[k] = i
            THEN p[CHOOSE k \in DOMAIN pos : pos[k] = i]
            ELSE rest[i]]

\* C15: constrained_positive_part.bound_prox(u, bound=b) returns the
\* vector whose entries at the positions where u_i > 0 are the Euclidean
\* projection of the positive entries of u onto the L1 ball of radius b,
\* and whose other entries are 0.
C15_ConstrainedPositivePartProjection ==
    (/\ prox.op = "bound_prox"
     /\ ProxAtom.cls = "constrained_positive_part"
     /\ prox.exc = "") =>
        prox.ret = PositiveProjection(prox.x, ProxWeight, Zeros(prox.x))

\* C16: max_positive_part.lagrange_prox(u, lipschitz=L, lagrange=lam)
\* returns u - p, where p is 0 where u_i <= 0 and, where u_i > 0, the
\* Euclidean projection of the positive entries of u onto the L1 ball of
\* radius lam/L.
C16_MaxPositivePartResidual ==
    (/\ prox.op = "lagrange_prox"
     /\ ProxAtom.cls = "max_positive_part"
     /\ prox.exc = "") =>
        prox.ret = VSub(prox.x,
                        PositiveProjection(prox.x,
                                           RDiv(ProxWeight, prox.lipschitz),
                                           Zeros(prox.x)))

\* positive_part.bound_prox has answered
PositivePartBoundCall ==
    /\ prox.op = "bound_prox"
    /\ ProxAtom.cls = "positive_part"
    /\ prox.exc = ""

\* C17 as stated: positive_part.bound_prox(u, bound=b) replaces the
\* positive entries of u by the Euclidean projection of those entries onto
\* the L1 ball of radius b, and maps every non-positive entry of u to 0.
C17_AsStated ==
    PositivePartBoundCall =>
        prox.ret = PositiveProjection(prox.x, ProxWeight, Zeros(prox.x))

\* C17: positive_part.bound_prox(u, bound=b) replaces the positive entries
\* of u by the Euclidean projection of those entries onto the L1 ball of
\* radius b, and leaves every non-positive entry of u as it is.
C17_PositivePartProjection ==
    PositivePartBoundCall =>
        /\ prox.ret = PositiveProjection(prox.x, ProxWeight, prox.x)
        /\ \A i \in DOMAIN prox.x :
              /\ RLeq(prox.x[i], R(0)) => prox.ret[i] = prox.x[i]
              /\ RLt(R(0), prox.x[i]) => /\ RLeq(R(0), prox.ret[i])
                                         /\ RLeq(prox.ret[i], prox.x[i])
        /\ RLeq(VSum(PosPart(prox.ret)), ProxWeight)

\* positive_part.bound_prox has shrunk the positive entries of a vector
\* with a negative entry, and has kept the negative entry
C17_Witness ==
    /\ PositivePartBoundCall
    /\ \E i \in DOMAIN prox.x :
          /\ RLt(prox.x[i], R(0))
          /\ prox.ret[i] = prox.x[i]
    /\ \E i \in DOMAIN prox.x :
          /\ RLt(R(0), prox.x[i])
          /\ RLt(prox.ret[i], prox.x[i])

(***************************************************************************)
(* Feasibility of the bound-mode proximal step.                            *)
(***************************************************************************)
\* C18: for every atom class, every bound b >= 0 and every input u,
\* constraint(bound_prox(u, bound=b), bound=b) returns 0: the result of a
\* bound-mode proximal step passes the atom's own feasibility test.
C18_BoundProxFeasible ==
    (/\ prox.op = "bound_prox_constraint"
     /\ prox.arg # None
     /\ RLeq(R(0), prox.arg)) =>
        /\ prox.exc = ""
        /\ prox.ret = R(0)

====
